---- MODULE Spec2Model ----
(***************************************************************************)
(* Model of app.py, the EV Market Insights dashboard script.               *)
(*                                                                         *)
(* The script is re-executed from top to bottom on first load and after    *)
(* every widget change.  One action of the model is one widget event       *)
(* followed by the complete re-execution of the script (filter, summary    *)
(* metrics, top ZIPs, concern aggregate, recommendations).                 *)
(*                                                                         *)
(* Number encoding.  Columns that the CSV may hold as floats are kept      *)
(* exact as scaled integers:                                               *)
(*   predicted_ev_sales_next_12m  in halves      (241 is 120.5)            *)
(*   ev_share                     in hundredths  (12 is 0.12)              *)
(*   avg_sentiment                in tenths      (-4 is -0.4)              *)
(* A mean is kept exact as a fraction [num, den]; the mean of an empty     *)
(* column is 0/0, which plays the part of pandas' NaN.                     *)
(***************************************************************************)
EXTENDS Integers, Sequences, FiniteSets, TLC

VARIABLES
    geo,          \* the geo dataset returned by load_data()
    concerns,     \* the concerns dataset returned by load_data()
    status,       \* "loaded" (no run yet), "done" (last run completed),
                  \* "failed_at_metrics" (last run raised at lines 47-48)
    state,        \* value of the state selectbox
    city,         \* value of the city selectbox
    top_k,        \* value of the top-K slider
    df,           \* filtered geo frame of the last run
    metrics,      \* the summary metrics assigned by the last run
    conc,         \* filtered concerns frame of the last run
    top_df,       \* the top ZIPs table of the last run
    conc_agg,     \* the concern aggregate of the last run
    recs          \* the recommendation list emitted by the last run

vars == <<geo, concerns, status, state, city, top_k, df, metrics, conc, top_df, conc_agg, recs>>

----------------------------------------------------------------------------
\* Bounds of the explored inputs

MaxGeo == 4

MaxConc == 3

\* Row shapes the geo dataset is built from (the ZIP is added per position,
\* so that ZIPs are unique per row)
AustinTX ==
    [city |-> "Austin", state |-> "TX", population |-> 30000, median_income |-> 95000,
     charging_stations |-> 50, ev_share |-> 8, predicted_ev_sales_next_12m |-> 240]

DallasTX ==
    [city |-> "Dallas", state |-> "TX", population |-> 20000, median_income |-> 60000,
     charging_stations |-> 90, ev_share |-> 15, predicted_ev_sales_next_12m |-> 160]

AustinCA ==
    [city |-> "Austin", state |-> "CA", population |-> 10000, median_income |-> 85001,
     charging_stations |-> 70, ev_share |-> 12, predicted_ev_sales_next_12m |-> 241]

GeoKinds == { AustinTX, DallasTX, AustinCA }

\* Rows the concerns dataset is built from
RangeAustinTX ==
    [state |-> "TX", city |-> "Austin", concern |-> "Range Anxiety",
     mention_count |-> 2, avg_sentiment |-> -4]

RangeDallasTX ==
    [state |-> "TX", city |-> "Dallas", concern |-> "Range Anxiety",
     mention_count |-> 2, avg_sentiment |-> -2]

CostAustinTX ==
    [state |-> "TX", city |-> "Austin", concern |-> "Cost",
     mention_count |-> 3, avg_sentiment |-> -6]

CostAustinCA ==
    [state |-> "CA", city |-> "Austin", concern |-> "Cost",
     mention_count |-> 2, avg_sentiment |-> 1]

ConcernKinds == { RangeAustinTX, RangeDallasTX, CostAustinTX, CostAustinCA }

\* The strings of the universe in Python's string order (what sorted() yields)
StateOrder == <<"CA", "TX">>

CityOrder == <<"Austin", "Dallas">>

ConcernOrder == <<"Cost", "Range Anxiety">>

SeqsUpTo(S, n) == UNION { [1..m -> S] : m \in 0..n }

WithZip(kinds) ==
    [i \in 1..Len(kinds) |->
        [zip |-> 78700 + i,
         city |-> kinds[i].city,
         state |-> kinds[i].state,
         population |-> kinds[i].population,
         median_income |-> kinds[i].median_income,
         charging_stations |-> kinds[i].charging_stations,
         ev_share |-> kinds[i].ev_share,
         predicted_ev_sales_next_12m |-> kinds[i].predicted_ev_sales_next_12m]]

----------------------------------------------------------------------------
\* Library behaviour used by the script

Range(s) == { s[i] : i \in 1..Len(s) }

RECURSIVE Sum(_)
Sum(col) == IF Len(col) = 0 THEN 0 ELSE col[1] + Sum(Tail(col))

Column(frame, name) == [i \in 1..Len(frame) |-> frame[i][name]]

\* Series.mean(): the exact fraction; 0/0 (NaN) on an empty column
Mean(col) == [num |-> Sum(col), den |-> Len(col)]

IsNaN(m) == m.den = 0

\* mean < t and mean > t as Python evaluates them: False when the mean is NaN
MeanLess(m, t) == ~IsNaN(m) /\ m.num < t * m.den

MeanGreater(m, t) == ~IsNaN(m) /\ m.num > t * m.den

\* int(x) of a non-negative value held as num/den: truncation
PyInt(num, den) == num \div den

\* sorted(series.unique()) over a known string order
SortedUnique(col, order) == SelectSeq(order, LAMBDA x : x \in Range(col))

\* list.index(x), zero-based
RECURSIVE IndexOf(_, _)
IndexOf(s, x) == IF s[1] = x THEN 0 ELSE 1 + IndexOf(Tail(s), x)

\* the arrangements of the index set S, as sequences
RECURSIVE Perms(_)
Perms(S) ==
    IF S = {} THEN { <<>> }
    ELSE UNION { { <<x>> \o p : p \in Perms(S \ {x}) } : x \in S }

\* Variant: ascending=False forgotten
SortValuesAsc(frame, name) ==
    { [i \in 1..Len(frame) |-> frame[p[i]]] :
        p \in { q \in Perms(1..Len(frame)) :
                  \A i \in 1..(Len(frame) - 1) : frame[q[i]][name] <= frame[q[i + 1]][name] } }

\* frame.sort_values(name, ascending=False) with the default kind="quicksort":
\* the result is descending in the key, the order of equal keys is not
\* determined, so every descending arrangement is a possible outcome
SortValuesDesc(frame, name) ==
    { [i \in 1..Len(frame) |-> frame[p[i]]] :
        p \in { q \in Perms(1..Len(frame)) :
                  \A i \in 1..(Len(frame) - 1) : frame[q[i]][name] >= frame[q[i + 1]][name] } }

\* frame.head(k)
HeadRows(frame, k) == SubSeq(frame, 1, IF k < Len(frame) THEN k ELSE Len(frame))

\* str.lower()
Lower(s) ==
    CASE s = "Range Anxiety" -> "range anxiety"
      [] s = "Cost" -> "cost"
      [] OTHER -> s

----------------------------------------------------------------------------
\* The script, top to bottom

WILDCARD == "ALL"

state_opts == <<WILDCARD>> \o SortedUnique(Column(geo, "state"), StateOrder)

default_state == IF "TX" \in Range(state_opts) THEN "TX" ELSE WILDCARD

state_index == IF default_state \in Range(state_opts) THEN IndexOf(state_opts, default_state) ELSE 0

\* Variant: the city options are not narrowed to the selected state
city_options_all(s) == SortedUnique(Column(geo, "city"), CityOrder)

city_options_raw(s) ==
    IF s # WILDCARD
    THEN SortedUnique(Column(SelectSeq(geo, LAMBDA r : r.state = s), "city"), CityOrder)
    ELSE SortedUnique(Column(geo, "city"), CityOrder)

city_opts(s) == <<WILDCARD>> \o city_options_raw(s)

default_city(s) == IF s = "TX" /\ "Austin" \in Range(city_opts(s)) THEN "Austin" ELSE WILDCARD

city_index(s) ==
    IF default_city(s) \in Range(city_opts(s)) THEN IndexOf(city_opts(s), default_city(s)) ELSE 0

\* Variant: the city filter written as an elif of the state filter
filterRecordsElif(records, s, c) ==
    IF s # WILDCARD THEN SelectSeq(records, LAMBDA r : r.state = s)
    ELSE IF c # WILDCARD THEN SelectSeq(records, LAMBDA r : r.city = c)
    ELSE records

\* lines 39-43 and 102-106: the same two equality filters on either dataset
filterRecords(records, s, c) ==
    LET byState == IF s # WILDCARD THEN SelectSeq(records, LAMBDA r : r.state = s) ELSE records
    IN  IF c # WILDCARD THEN SelectSeq(byState, LAMBDA r : r.city = c) ELSE byState

StationsThreshold == 80

IncomeThreshold == 80000

EvShareThreshold == 12

TopKMin == 3

TopKMax == 10

TopKDefault == 5

\* lines 82-88: column selection and renaming of one row
RenamedRow(r) ==
    [ZIP |-> r.zip, City |-> r.city, State |-> r.state, Population |-> r.population,
     Median_income |-> r.median_income, Charging_stations |-> r.charging_stations,
     Predicted_sales_12m |-> r.predicted_ev_sales_next_12m]

\* the possible values of top_df
topK(d, k) ==
    { [i \in 1..Len(h) |-> RenamedRow(h[i])] :
        h \in { HeadRows(sorted, k) : sorted \in SortValuesDesc(d, "predicted_ev_sales_next_12m") } }

RECURSIVE Largest(_)
Largest(col) ==
    IF Len(col) = 1 THEN col[1]
    ELSE IF col[1] >= Largest(Tail(col)) THEN col[1] ELSE Largest(Tail(col))

\* Variant: mention_count aggregated with "count" instead of "sum"
GroupByConcernCount(frame) ==
    LET labels == SortedUnique(Column(frame, "concern"), ConcernOrder)
        group(l) == SelectSeq(frame, LAMBDA r : r.concern = l)
    IN  [i \in 1..Len(labels) |->
            [concern |-> labels[i],
             mention_count |-> Len(group(labels[i])),
             avg_sentiment |-> Mean(Column(group(labels[i]), "avg_sentiment"))]]

\* Variant: mention_count aggregated with "max" instead of "sum"
GroupByConcernMax(frame) ==
    LET labels == SortedUnique(Column(frame, "concern"), ConcernOrder)
        group(l) == SelectSeq(frame, LAMBDA r : r.concern = l)
    IN  [i \in 1..Len(labels) |->
            [concern |-> labels[i],
             mention_count |-> Largest(Column(group(labels[i]), "mention_count")),
             avg_sentiment |-> Mean(Column(group(labels[i]), "avg_sentiment"))]]

\* conc.groupby("concern", as_index=False).agg(sum, mean): one row per label
\* present, in label order
GroupByConcern(frame) ==
    LET labels == SortedUnique(Column(frame, "concern"), ConcernOrder)
        group(l) == SelectSeq(frame, LAMBDA r : r.concern = l)
    IN  [i \in 1..Len(labels) |->
            [concern |-> labels[i],
             mention_count |-> Sum(Column(group(labels[i]), "mention_count")),
             avg_sentiment |-> Mean(Column(group(labels[i]), "avg_sentiment"))]]

\* the possible values of conc_agg
concernAggregate(frame) == SortValuesDesc(GroupByConcern(frame), "mention_count")

\* Variant: round() instead of int()
Rule1Rounded(z) ==
    [rule |-> 1, ZIP |-> z.ZIP, City |-> z.City, State |-> z.State,
     sales |-> PyInt(z.Predicted_sales_12m + 1, 2)]

Rule1(z) ==
    [rule |-> 1, ZIP |-> z.ZIP, City |-> z.City, State |-> z.State,
     sales |-> PyInt(z.Predicted_sales_12m, 2)]

Rule2(top_concern) == [rule |-> 2, concern |-> Lower(top_concern)]

Rule3 == [rule |-> 3, text |-> "Partner with charging providers"]

Rule4 == [rule |-> 4, text |-> "Run education webinars with dealerships"]

Fallback == [rule |-> 0, text |-> "Maintain current strategy"]

\* Variant: rule 3 decided on the truncated means shown as metrics
Rule3FiresOnMetrics(d) ==
    /\ Len(d) > 0
    /\ PyInt(Sum(Column(d, "charging_stations")), Len(d)) < StationsThreshold
    /\ PyInt(Sum(Column(d, "median_income")), Len(d)) > IncomeThreshold

Rule3Fires(d) ==
    /\ MeanLess(Mean(Column(d, "charging_stations")), StationsThreshold)
    /\ MeanGreater(Mean(Column(d, "median_income")), IncomeThreshold)

Rule4Fires(d) == MeanLess(Mean(Column(d, "ev_share")), EvShareThreshold)

\* Variant: the concern rule evaluated before the ZIP rule
RecommendationsConcernFirst(top, agg, d) ==
    LET r1 == IF Len(top) # 0 THEN <<Rule1(top[1])>> ELSE <<>>
        r2 == IF Len(agg) # 0 THEN <<Rule2(agg[1].concern)>> ELSE <<>>
        r3 == IF Rule3Fires(d) THEN <<Rule3>> ELSE <<>>
        r4 == IF Rule4Fires(d) THEN <<Rule4>> ELSE <<>>
        fired == r2 \o r1 \o r3 \o r4
    IN  IF Len(fired) = 0 THEN <<Fallback>> ELSE fired

\* lines 122-135
Recommendations(top, agg, d) ==
    LET r1 == IF Len(top) # 0 THEN <<Rule1(top[1])>> ELSE <<>>
        r2 == IF Len(agg) # 0 THEN <<Rule2(agg[1].concern)>> ELSE <<>>
        r3 == IF Rule3Fires(d) THEN <<Rule3>> ELSE <<>>
        r4 == IF Rule4Fires(d) THEN <<Rule4>> ELSE <<>>
        fired == r1 \o r2 \o r3 \o r4
    IN  IF Len(fired) = 0 THEN <<Fallback>> ELSE fired

\* Variant: the means guarded against an empty frame, as lines 70-71 are
summaryMetricsGuarded(d) ==
    LET total == PyInt(Sum(Column(d, "predicted_ev_sales_next_12m")), 2)
    IN  IF Len(d) = 0
        THEN [raised |-> FALSE, total_pred_sales |-> total, avg_income |-> 0, avg_stations |-> 0]
        ELSE [raised |-> FALSE, total_pred_sales |-> total,
              avg_income |-> PyInt(Sum(Column(d, "median_income")), Len(d)),
              avg_stations |-> PyInt(Sum(Column(d, "charging_stations")), Len(d))]

\* lines 46-48: the three metrics; int() raises ValueError on a NaN mean, and
\* then only total_pred_sales has been assigned
summaryMetrics(d) ==
    LET total == PyInt(Sum(Column(d, "predicted_ev_sales_next_12m")), 2)
        income == Mean(Column(d, "median_income"))
        stations == Mean(Column(d, "charging_stations"))
    IN  IF IsNaN(income) \/ IsNaN(stations)
        THEN [raised |-> TRUE, total_pred_sales |-> total]
        ELSE [raised |-> FALSE, total_pred_sales |-> total,
              avg_income |-> PyInt(income.num, income.den),
              avg_stations |-> PyInt(stations.num, stations.den)]

\* One execution of the script body (lines 39-138) with the widget values s, c, k
Script(s, c, k) ==
    LET d == filterRecords(geo, s, c)
        cn == filterRecords(concerns, s, c)
    IN  /\ df' = d
        /\ metrics' = summaryMetrics(d)
        /\ IF metrics'.raised
           THEN /\ status' = "failed_at_metrics"
                /\ top_df' = <<>>
                /\ conc' = <<>>
                /\ conc_agg' = <<>>
                /\ recs' = <<>>
           ELSE /\ status' = "done"
                /\ conc' = cn
                /\ \E top \in topK(d, k) :
                     \E agg \in concernAggregate(cn) :
                        /\ top_df' = top
                        /\ conc_agg' = agg
                        /\ recs' = Recommendations(top, agg, d)

----------------------------------------------------------------------------
\* Behaviour

\* The state after load_data(), before the first execution.  The geo dataset
\* varies (at most two rows per row shape), next to no or one concern row.
Init ==
    /\ geo \in { WithZip(kinds) : kinds \in { ks \in SeqsUpTo(GeoKinds, MaxGeo) :
                       \A x \in GeoKinds : Cardinality({ i \in DOMAIN ks : ks[i] = x }) <= 2 } }
    /\ concerns \in { <<>>, <<CostAustinTX>> }
    /\ status = "loaded"
    /\ state = WILDCARD
    /\ city = WILDCARD
    /\ top_k = TopKDefault
    /\ df = <<>>
    /\ metrics = [raised |-> FALSE]
    /\ top_df = <<>>
    /\ conc = <<>>
    /\ conc_agg = <<>>
    /\ recs = <<>>

\* The same with the concerns dataset varying, next to one geo dataset that
\* offers every state and city
InitConcern ==
    /\ geo = WithZip(<<AustinTX, DallasTX, AustinCA>>)
    /\ concerns \in SeqsUpTo(ConcernKinds, MaxConc)
    /\ status = "loaded"
    /\ state = WILDCARD
    /\ city = WILDCARD
    /\ top_k = TopKDefault
    /\ df = <<>>
    /\ metrics = [raised |-> FALSE]
    /\ top_df = <<>>
    /\ conc = <<>>
    /\ conc_agg = <<>>
    /\ recs = <<>>

\* First execution: every widget takes its default
FirstLoad ==
    /\ status = "loaded"
    /\ state' = state_opts[state_index + 1]
    /\ city' = city_opts(state')[city_index(state') + 1]
    /\ top_k' = TopKDefault
    /\ Script(state', city', top_k')
    /\ UNCHANGED <<geo, concerns>>

\* The user picks another state; the city selectbox, whose options changed,
\* either keeps its value (when still offered) or falls back to its default
SelectState(s) ==
    /\ status # "loaded"
    /\ s \in Range(state_opts)
    /\ s # state
    /\ state' = s
    /\ city' \in { city_opts(s)[city_index(s) + 1] } \cup ({city} \cap Range(city_opts(s)))
    /\ Script(state', city', top_k)
    /\ UNCHANGED <<geo, concerns, top_k>>

\* The user picks another city among those offered for the selected state
SelectCity(c) ==
    /\ status # "loaded"
    /\ c \in Range(city_opts(state))
    /\ c # city
    /\ city' = c
    /\ Script(state, city', top_k)
    /\ UNCHANGED <<geo, concerns, state, top_k>>

\* The user moves the slider (rendered only when the run reached line 81)
SetTopK(k) ==
    /\ status = "done"
    /\ k \in TopKMin..TopKMax
    /\ k # top_k
    /\ top_k' = k
    /\ Script(state, city, top_k')
    /\ UNCHANGED <<geo, concerns, state, city>>

Next ==
    \/ FirstLoad
    \/ \E s \in Range(StateOrder) \cup {WILDCARD} : SelectState(s)
    \/ \E c \in Range(CityOrder) \cup {WILDCARD} : SelectCity(c)
    \/ \E k \in TopKMin..TopKMax : SetTopK(k)

Spec == Init /\ [][Next]_vars

SpecConcern == InitConcern /\ [][Next]_vars

----------------------------------------------------------------------------
\* Vocabulary of the checked properties

Matches(r, s, c) == (s = "ALL" \/ r.state = s) /\ (c = "ALL" \/ r.city = c)

Kept(records, s, c) == { i \in 1..Len(records) : Matches(records[i], s, c) }

\* the j-th smallest index of I
NthOf(I, j) == CHOOSE i \in I : Cardinality({ x \in I : x <= i }) = j

ExactlyTheMatching(out, records, s, c) ==
    /\ Len(out) = Cardinality(Kept(records, s, c))
    /\ \A j \in 1..Len(out) : out[j] = records[NthOf(Kept(records, s, c), j)]

Smaller(a, b) == IF a < b THEN a ELSE b

\* place of row i of d in the stable descending sort by predicted sales
StableRank(d, i) ==
    1 + Cardinality({ j \in 1..Len(d) :
            \/ d[j].predicted_ev_sales_next_12m > d[i].predicted_ev_sales_next_12m
            \/ /\ d[j].predicted_ev_sales_next_12m = d[i].predicted_ev_sales_next_12m
               /\ j < i })

StableSortedDesc(d) == [p \in 1..Len(d) |-> d[CHOOSE i \in 1..Len(d) : StableRank(d, i) = p]]

RECURSIVE TotalOver(_, _, _)
TotalOver(I, frame, name) ==
    IF I = {} THEN 0
    ELSE LET i == CHOOSE x \in I : TRUE
         IN  frame[i][name] + TotalOver(I \ {i}, frame, name)

Total(frame, name) == TotalOver(1..Len(frame), frame, name)

LabelsIn(frame) == { frame[i].concern : i \in 1..Len(frame) }

MentionTotal(frame, l) ==
    TotalOver({ i \in 1..Len(frame) : frame[i].concern = l }, frame, "mention_count")

HasRule(n) == \E i \in 1..Len(recs) : recs[i].rule = n

RuleRec(n) == recs[CHOOSE i \in 1..Len(recs) : recs[i].rule = n]

\* rule 3 decided on the exact sums of a frame of n > 0 rows
ExactRule3(d) ==
    /\ Len(d) > 0
    /\ Total(d, "charging_stations") < 80 * Len(d)
    /\ Total(d, "median_income") > 80000 * Len(d)

\* ev_share is in hundredths: 12 is 0.12
ExactRule4(d) == Len(d) > 0 /\ Total(d, "ev_share") < 12 * Len(d)

FiringRules ==
    { n \in 1..4 :
        \/ n = 1 /\ Len(top_df) > 0
        \/ n = 2 /\ Len(conc_agg) > 0
        \/ n = 3 /\ ExactRule3(df)
        \/ n = 4 /\ ExactRule4(df) }

----------------------------------------------------------------------------
\* C1: after every run the filtered geo frame (and the filtered concerns
\* frame) holds exactly the rows whose state equals the selected state
\* (unless it is ALL) and whose city equals the selected city (unless it is
\* ALL), in their original relative order; with both selections ALL it is
\* the full input unchanged.
C1_FilterExact ==
    /\ status # "loaded" => ExactlyTheMatching(df, geo, state, city)
    /\ status = "done" => ExactlyTheMatching(conc, concerns, state, city)
    /\ status # "loaded" /\ state = "ALL" /\ city = "ALL" => df = geo
    /\ status = "done" /\ state = "ALL" /\ city = "ALL" => conc = concerns

\* a run with both filters active that drops rows from between kept rows
C1_Witness ==
    /\ status = "done"
    /\ state # "ALL"
    /\ city # "ALL"
    /\ Len(df) >= 2
    /\ \E i, j, m \in 1..Len(geo) :
         i < m /\ m < j /\ geo[i] \in Range(df) /\ geo[j] \in Range(df) /\ geo[m] \notin Range(df)

\* C2 as stated: the top ZIPs table is the length-min(k, n) prefix of the
\* STABLE descending sort of the filtered geo frame by predicted sales.
C2_StablePrefix ==
    status = "done" =>
        top_df = [i \in 1..Smaller(top_k, Len(df)) |-> RenamedRow(StableSortedDesc(df)[i])]

\* C2 as amended: the top ZIPs table has exactly min(k, n) rows, all of them
\* distinct rows of the filtered geo frame, in descending order of predicted
\* sales, and no omitted row has larger predicted sales than a listed one;
\* the order among equal predicted sales is left open.
C2_DescendingPrefix ==
    status = "done" =>
        /\ top_k \in 3..10
        /\ Len(top_df) = Smaller(top_k, Len(df))
        /\ \A i \in 1..Len(top_df) : \E j \in 1..Len(df) : top_df[i] = RenamedRow(df[j])
        /\ \A i, j \in 1..Len(top_df) : i # j => top_df[i].ZIP # top_df[j].ZIP
        /\ \A i, j \in 1..Len(top_df) :
             i < j => top_df[i].Predicted_sales_12m >= top_df[j].Predicted_sales_12m
        /\ \A j \in 1..Len(df) :
             (\A i \in 1..Len(top_df) : top_df[i].ZIP # df[j].zip) =>
                 \A i \in 1..Len(top_df) :
                     df[j].predicted_ev_sales_next_12m <= top_df[i].Predicted_sales_12m

\* k cuts the table short, and two rows with equal predicted sales are listed
\* against their order in the filtered frame
C2_Witness ==
    /\ status = "done"
    /\ top_k = 3
    /\ Len(df) = 4
    /\ Len(top_df) = 3
    /\ \E i, j \in 1..Len(top_df) :
         /\ i < j
         /\ top_df[i].Predicted_sales_12m = top_df[j].Predicted_sales_12m
         /\ top_df[i].ZIP > top_df[j].ZIP

\* C3: a run whose filtered geo frame is empty completes every downstream
\* step (summary metrics, top-K, concern aggregate, recommendations).
C3_EmptyIsHandled == (status # "loaded" /\ Len(df) = 0) => status = "done"

\* C4: the emitted list is exactly the records of the rules that fire, in
\* the order rule 1, 2, 3, 4, each at most once; the fallback is emitted if
\* and only if no rule fires, and then it is the only entry.
C4_RulesInOrder ==
    status = "done" =>
        /\ FiringRules # {} =>
             /\ Len(recs) = Cardinality(FiringRules)
             /\ \A i \in 1..Len(recs) : recs[i].rule \in FiringRules
             /\ \A i, j \in 1..Len(recs) : i < j => recs[i].rule < recs[j].rule
             /\ \A i \in 1..Len(recs) : recs[i].rule = 3 => recs[i] = Rule3
             /\ \A i \in 1..Len(recs) : recs[i].rule = 4 => recs[i] = Rule4
        /\ HasRule(0) <=> FiringRules = {}
        /\ HasRule(0) => recs = <<Fallback>>

\* all four rules fire in one run
C4_Witness == status = "done" /\ Len(recs) = 4 /\ FiringRules = 1..4

\* C5 as stated: rule 1 fires iff the top ZIPs table is non-empty, and it
\* names the ZIP, city, state and predicted-sales value of the first row of
\* the table, a row of the filtered geo frame with maximal predicted sales.
\* (sales is in whole units, the column in halves.)
C5_NamesFirstRow ==
    status = "done" =>
        /\ HasRule(1) <=> Len(top_df) > 0
        /\ HasRule(1) =>
             /\ RuleRec(1).ZIP = top_df[1].ZIP
             /\ RuleRec(1).City = top_df[1].City
             /\ RuleRec(1).State = top_df[1].State
             /\ 2 * RuleRec(1).sales = top_df[1].Predicted_sales_12m
             /\ \E r \in Range(df) :
                  /\ RenamedRow(r) = top_df[1]
                  /\ \A q \in Range(df) :
                       q.predicted_ev_sales_next_12m <= r.predicted_ev_sales_next_12m

\* C5 as amended: the same, except that the predicted-sales value named is
\* the first row's value truncated to a whole number (value - 1 < named <= value).
C5_NamesFirstRowTruncated ==
    status = "done" =>
        /\ HasRule(1) <=> Len(top_df) > 0
        /\ HasRule(1) =>
             /\ RuleRec(1).ZIP = top_df[1].ZIP
             /\ RuleRec(1).City = top_df[1].City
             /\ RuleRec(1).State = top_df[1].State
             /\ 2 * RuleRec(1).sales <= top_df[1].Predicted_sales_12m
             /\ top_df[1].Predicted_sales_12m < 2 * RuleRec(1).sales + 2
             /\ \E r \in Range(df) :
                  /\ RenamedRow(r) = top_df[1]
                  /\ \A q \in Range(df) :
                       q.predicted_ev_sales_next_12m <= r.predicted_ev_sales_next_12m

\* rule 1 names the best of several rows, whose predicted sales is fractional
C5_Witness ==
    /\ status = "done"
    /\ HasRule(1)
    /\ Len(df) >= 3
    /\ top_df[1].Predicted_sales_12m = 241
    /\ RuleRec(1).sales = 120

\* C6: the concern aggregate has exactly one row per distinct concern label
\* of the filtered concerns, its mention_count is the sum of that label's
\* mention counts, rows are in descending order of mention_count, and the
\* mention counts of the aggregate add up to those of the filtered concerns.
C6_ConcernAggregate ==
    status = "done" =>
        /\ Len(conc_agg) = Cardinality(LabelsIn(conc))
        /\ { conc_agg[i].concern : i \in 1..Len(conc_agg) } = LabelsIn(conc)
        /\ \A i \in 1..Len(conc_agg) :
             conc_agg[i].mention_count = MentionTotal(conc, conc_agg[i].concern)
        /\ \A i, j \in 1..Len(conc_agg) :
             i < j => conc_agg[i].mention_count >= conc_agg[j].mention_count
        /\ Total(conc_agg, "mention_count") = Total(conc, "mention_count")

\* several rows of one label are summed next to another label
C6_Witness ==
    /\ status = "done"
    /\ Len(conc) = 3
    /\ Len(conc_agg) = 2
    /\ conc_agg[1].mention_count = 4
    /\ conc_agg[2].mention_count = 3

\* C7: rule 2 fires iff the filtered concerns (and so their aggregate) are
\* non-empty, and the concern it names is the lower-cased text of a label
\* whose summed mention count is maximal among the labels present.
C7_TopConcern ==
    status = "done" =>
        /\ HasRule(2) <=> Len(conc) > 0
        /\ HasRule(2) <=> Len(conc_agg) > 0
        /\ HasRule(2) =>
             \E l \in LabelsIn(conc) :
                /\ \A m \in LabelsIn(conc) : MentionTotal(conc, m) <= MentionTotal(conc, l)
                /\ RuleRec(2).concern = Lower(l)

\* the named concern wins by its total although another label holds the
\* largest single row
C7_Witness ==
    /\ status = "done"
    /\ HasRule(2)
    /\ RuleRec(2).concern = "range anxiety"
    /\ \E i \in 1..Len(conc) :
         /\ conc[i].concern = "Cost"
         /\ \A j \in 1..Len(conc) : conc[j].mention_count <= conc[i].mention_count
         /\ \E j \in 1..Len(conc) : conc[j].mention_count < conc[i].mention_count

\* C8: on a non-empty filtered geo frame of n rows, rule 3 fires exactly when
\* sum(charging_stations) < 80 n and sum(median_income) > 80000 n, and rule 4
\* exactly when sum(ev_share) < 0.12 n; stations [50, 90] with incomes
\* [95000, 60000] do not fire rule 3, and ev_share [0.08, 0.15] fires rule 4.
C8_ExactMeans ==
    (status = "done" /\ Len(df) > 0) =>
        /\ HasRule(3) <=> ExactRule3(df)
        /\ HasRule(4) <=> ExactRule4(df)
        /\ (/\ Column(df, "charging_stations") = <<50, 90>>
            /\ Column(df, "median_income") = <<95000, 60000>>) => ~HasRule(3)
        /\ Column(df, "ev_share") = <<8, 15>> => HasRule(4)

\* rule 3 fires on a mean income between 80000 and 80001, which the metric
\* shows truncated to 80000
C8_Witness ==
    /\ status = "done"
    /\ HasRule(3)
    /\ metrics.avg_income = 80000
    /\ metrics.avg_stations < 80

\* C9: with a non-empty geo dataset, after any sequence of selections the
\* selected state is ALL or a state of the dataset, the selected city is ALL
\* or the city of a record matching the selected state, the filtered geo
\* frame is not empty and the run completes with its mean metrics defined.
C9_SelectionNeverEmpty ==
    (Len(geo) > 0 /\ status # "loaded") =>
        /\ state = "ALL" \/ \E r \in Range(geo) : r.state = state
        /\ city = "ALL" \/ \E r \in Range(geo) : (state = "ALL" \/ r.state = state) /\ r.city = city
        /\ Len(df) > 0
        /\ status = "done"
        /\ ~metrics.raised

\* the selection was moved off its default to a state one of whose cities is
\* not offered, next to another state that has that city
C9_Witness ==
    /\ status = "done"
    /\ state = "CA"
    /\ city = "Austin"
    /\ \E r \in Range(geo) : r.state = "TX" /\ r.city = "Dallas"
    /\ \A r \in Range(geo) : r.state = "CA" => r.city # "Dallas"

\* C10: the fallback is never emitted: a completed run has a non-empty
\* filtered geo frame and its list starts with rule 1; a run on an empty
\* filtered geo frame stops at the summary metrics and emits nothing.
C10_NoFallback ==
    /\ ~HasRule(0)
    /\ status = "done" => (Len(df) > 0 /\ Len(recs) > 0 /\ recs[1].rule = 1)
    /\ (status # "loaded" /\ Len(df) = 0) => (status = "failed_at_metrics" /\ recs = <<>>)

\* a run on an empty filtered geo frame
C10_Witness == status = "failed_at_metrics" /\ Len(df) = 0 /\ metrics.raised

====
